---- MODULE Spec2Model ----
(***************************************************************************)
(* State-machine model of src/src/services/chat.ts (useChats): the chat    *)
(* session over a persistent store (dbLayer), the streaming aggregator     *)
(* (handleAiPartialResponse / handleAiCompletion / startAiMessage /        *)
(* appendToAiMessage) and the public operations.                           *)
(*                                                                         *)
(* Every async function is cut at its awaits.  The synchronous code from   *)
(* a call (or from the resolution of an awaited store request) up to the   *)
(* next await is one atomic step.  A suspended function is a task in       *)
(* `pending`, waiting for exactly one store request.  Requests against the *)
(* same object store complete in the order they were issued; requests      *)
(* against different object stores complete in either order.               *)
(*                                                                         *)
(* Not modelled because no control flow reads them: Chat.name,             *)
(* Message.createdAt, Message.meta, and the text of a user prompt.         *)
(***************************************************************************)
EXTENDS Integers, Sequences, FiniteSets

\* ---------------------------------------------------------------- bounds
MaxChatId == 3        \* Spec: chats the store ever creates (ids 1..MaxChatId)
MaxMsgId == 1         \* Spec: messages the store ever creates
MaxStreamMsgId == 3   \* SpecStream: messages the store ever creates
MaxFrags == 2         \* partial events one generate() call delivers
MaxHist == 3          \* SpecHistory: messages the store holds when the session starts
MaxTwoMsgId == 4      \* SpecTwo: messages the store ever creates
MaxGen == 2           \* SpecTwice: generate() calls running at one time
MaxFailFrags == 3     \* SpecFail: partial events one generate() call delivers
MaxCalls == 2         \* SpecOverlap, SpecRetarget: public operations suspended at one time
MaxOverlapChatId == 2 \* SpecOverlap, SpecRetarget: chats the store ever creates
MaxOverlapMsgId == 1  \* SpecOverlap: messages the store ever creates
MaxRetargetMsgId == 2 \* SpecRetarget: messages the store ever creates

Models  == {"m1", "m2"}     \* model identifiers startNewChat is called with
SwitchTo == {"m2"}          \* model identifiers switchModel is called with
Frags   == {"a", "b"}       \* text fragments of partial events
Tokens  == {"t1", "t2"}     \* continuation tokens of complete events
NoCtx   == "undefined"      \* Message.context not set

PublicOps == {"initialize", "switchChat", "switchModel", "startNewChat",
              "addUserMessage", "addSystemMessage", "deleteChat", "wipeDatabase"}

VARIABLES
  dbChats,            \* db.chats: sequence of [id, model, createdAt], by primary key
  dbMessages,         \* db.messages: sequence of [id, chatId, role, content, context]
  nextChatId,         \* key generator of db.chats   (never reset, not by clear())
  nextMsgId,          \* key generator of db.messages
  clock,              \* value of the last `new Date()`
  chats,              \* chats.value: the chat cache
  activeChat,         \* activeChat.value, NoChat for null
  messages,           \* messages.value
  ongoingAiMessages,  \* ongoingAiMessages.value: chatId -> the in-flight Message object
  pending,            \* suspended async functions, in the order their requests were issued
  streams,            \* generate() calls whose complete event is still to come
  raised,             \* an exception escaped an operation or a handler
  last                \* the step just taken (history, read by the properties only)

vars == <<dbChats, dbMessages, nextChatId, nextMsgId, clock, chats, activeChat,
          messages, ongoingAiMessages, pending, streams, raised, last>>

\* ------------------------------------------------------------ data shapes
NoChat == [id |-> 0, model |-> "", createdAt |-> 0, shared |-> FALSE]

\* A Chat object in memory.  `shared` (meaningful on activeChat only): activeChat.value
\* is the very object that startNewChat pushed into chats.value.
MemChat(c, sh) == [id |-> c.id, model |-> c.model, createdAt |-> c.createdAt, shared |-> sh]

\* A Message object in memory.  `alias`: the element of messages.value is the very
\* object startAiMessage created (and may still hold in ongoingAiMessages).
MemMsg(m, al) == [id |-> m.id, chatId |-> m.chatId, role |-> m.role,
                  content |-> m.content, context |-> m.context, alias |-> al]
StoreMsg(m)   == [id |-> m.id, chatId |-> m.chatId, role |-> m.role,
                  content |-> m.content, context |-> m.context]

RemoveAt(s, i) == [j \in 1..(Len(s) - 1) |-> IF j < i THEN s[j] ELSE s[j + 1]]
SeqMap(Op(_), s) == [i \in DOMAIN s |-> Op(s[i])]

\* ------------------------------------------------------------------ dbLayer
getAllChats == dbChats
getChat(chatId) == SelectSeq(dbChats, LAMBDA c : c.id = chatId)    \* <<>> for undefined
getMessages(chatId) == SelectSeq(dbMessages, LAMBDA m : m.chatId = chatId)
addChat(chat) == Append(dbChats, chat)
updateChat(chatId, model) ==
  [i \in DOMAIN dbChats |-> IF dbChats[i].id = chatId
                            THEN [dbChats[i] EXCEPT !.model = model] ELSE dbChats[i]]
addMessage(message) == Append(dbMessages, message)
updateMessageContent(messageId, content) ==
  [i \in DOMAIN dbMessages |-> IF dbMessages[i].id = messageId
                               THEN [dbMessages[i] EXCEPT !.content = content]
                               ELSE dbMessages[i]]
updateMessageContext(messageId, context) ==
  [i \in DOMAIN dbMessages |-> IF dbMessages[i].id = messageId
                               THEN [dbMessages[i] EXCEPT !.context = context]
                               ELSE dbMessages[i]]
deleteChatRow(chatId) == SelectSeq(dbChats, LAMBDA c : c.id # chatId)
deleteMessagesOfChat(chatId) == SelectSeq(dbMessages, LAMBDA m : m.chatId # chatId)

\* ------------------------------------------------------------------ computed
\* the comparator reversed: (a, b) => a.createdAt - b.createdAt
RECURSIVE sortedChats_oldestFirst(_)
sortedChats_oldestFirst(cs) ==
  IF cs = <<>> THEN <<>>
  ELSE LET mn == CHOOSE t \in {cs[i].createdAt : i \in DOMAIN cs} :
                   \A i \in DOMAIN cs : t <= cs[i].createdAt
           k  == CHOOSE i \in DOMAIN cs :
                   /\ cs[i].createdAt = mn
                   /\ \A j \in 1..(i - 1) : cs[j].createdAt # mn
       IN  <<cs[k]>> \o sortedChats_oldestFirst(RemoveAt(cs, k))

\* [...chats].sort((a, b) => b.createdAt - a.createdAt): stable, newest first.
RECURSIVE sortedChats(_)
sortedChats(cs) ==
  IF cs = <<>> THEN <<>>
  ELSE LET mx == CHOOSE t \in {cs[i].createdAt : i \in DOMAIN cs} :
                   \A i \in DOMAIN cs : cs[i].createdAt <= t
           k  == CHOOSE i \in DOMAIN cs :
                   /\ cs[i].createdAt = mx
                   /\ \A j \in 1..(i - 1) : cs[j].createdAt # mx
       IN  <<cs[k]>> \o sortedChats(RemoveAt(cs, k))
hasActiveChat == activeChat.id # 0
hasMessages == Len(messages) > 0

\* find() without the reverse(): the oldest message that carries a context
lastMessageWithContext_first(msgs) ==
  LET idx == {i \in DOMAIN msgs : msgs[i].context # NoCtx}
  IN  IF idx = {} THEN NoCtx
      ELSE msgs[CHOOSE i \in idx : \A j \in idx : i <= j].context

\* the message a later generation continues from:
\* messages.value.slice().reverse().find((msg) => msg.context)
lastMessageWithContext(msgs) ==
  LET idx == {i \in DOMAIN msgs : msgs[i].context # NoCtx}
  IN  IF idx = {} THEN NoCtx
      ELSE msgs[CHOOSE i \in idx : \A j \in idx : j <= i].context

\* ------------------------------------------------------------------- tasks
NoPre == [active |-> 0, model |-> "", hasMsgs |-> FALSE, db |-> {}, nextId |-> 0]
\* what a public operation found when it was called (history)
Pre == [active |-> activeChat.id, model |-> activeChat.model, hasMsgs |-> hasMessages,
        db |-> {dbChats[k].id : k \in DOMAIN dbChats}, nextId |-> nextChatId]

\* A suspended async function: `op` the public operation (or "stream" for a
\* transport callback) it runs for, `pc` the store request it awaits, and its locals.
Task(op, pc, arg, pre) ==
  [op |-> op, pc |-> pc, arg |-> arg, pre |-> pre, chatId |-> 0, model |-> "",
   createdAt |-> 0, role |-> "", content |-> <<>>, msgId |-> 0, msgChatId |-> 0,
   context |-> NoCtx, n |-> 0]

ChatsStore == {"getAllChats", "getChat", "updateChat", "addChat", "clearChats",
               "deleteChat"}
StoreOf(pc) == IF pc \in ChatsStore THEN "chats" ELSE "messages"

\* pending[i]'s request is the oldest outstanding one against its object store
Ready(i) == \A j \in 1..(i - 1) : StoreOf(pending[j].pc) # StoreOf(pending[i].pc)

\* no public operation is suspended at a store request
Idle == \A i \in DOMAIN pending : pending[i].op \notin PublicOps

\* the record of a step: its place in the code, the operation it belongs to,
\* whether the operation (or handler) returned in it, and what it logged
Step(name, t, end, log) ==
  [step |-> name, op |-> t.op, end |-> end, arg |-> t.arg,
   pre |-> IF end THEN t.pre ELSE NoPre, log |-> log,
   context |-> IF name \in {"complete", "fin_updateMessage"} THEN t.context ELSE NoCtx,
   model |-> t.model, n |-> t.n]

Await(rest, t) == Append(rest, t)

\* aiMessage.content += content, seen through every reference to that object
Mutate(msgs, id, content) ==
  [i \in DOMAIN msgs |-> IF msgs[i].id = id /\ msgs[i].alias
                         THEN [msgs[i] EXCEPT !.content = content] ELSE msgs[i]]
Fresh(rows) == [i \in DOMAIN rows |-> MemMsg(rows[i], FALSE)]

\* ----------------------------------------------------- switchChat (94-105)
switchChat(chatId) ==
  LET t == [Task("switchChat", "getChat", chatId, Pre) EXCEPT !.chatId = chatId]
  IN  /\ pending' = Await(pending, t)
      /\ last' = Step("switchChat", t, FALSE, "")
      /\ UNCHANGED <<dbChats, dbMessages, nextChatId, nextMsgId, clock, chats,
                     activeChat, messages, ongoingAiMessages, streams, raised>>

\* line 96 resolved: lines 97-99
switchChat_getChat(i) ==
  LET t == pending[i]
      rest == RemoveAt(pending, i)
      chat == getChat(t.chatId)
  IN  /\ Ready(i) /\ t.pc = "getChat"
      /\ IF chat # <<>>
         THEN /\ activeChat' = MemChat(chat[1], FALSE)
              /\ pending' = Await(rest, [t EXCEPT !.pc = "sw_getMessages"])
              /\ last' = Step("getChat", t, FALSE, "")
         ELSE /\ activeChat' = activeChat
              /\ pending' = rest
              /\ last' = Step("getChat", t, TRUE, "")
      /\ UNCHANGED <<dbChats, dbMessages, nextChatId, nextMsgId, clock, chats,
                     messages, ongoingAiMessages, streams, raised>>

\* line 99 resolved: line 100
switchChat_getMessages(i) ==
  LET t == pending[i]
  IN  /\ Ready(i) /\ t.pc = "sw_getMessages"
      /\ messages' = Fresh(getMessages(t.chatId))
      /\ pending' = RemoveAt(pending, i)
      /\ last' = Step("sw_getMessages", t, TRUE, "")
      /\ UNCHANGED <<dbChats, dbMessages, nextChatId, nextMsgId, clock, chats,
                     activeChat, ongoingAiMessages, streams, raised>>

\* --------------------------------------------------- startNewChat (121-136)
\* lines 122-129, run by task t (the caller itself, or initialize / deleteChat /
\* wipeDatabase calling it last).  new Date() is a clock that has advanced since
\* the chat before was created.
startNewChat_call(rest, t, model, name) ==
  /\ clock' = clock + 1
  /\ pending' = Await(rest, [t EXCEPT !.pc = "addChat", !.model = model,
                                      !.createdAt = clock + 1])
  /\ last' = Step(name, t, FALSE, "")

startNewChat(model) ==
  /\ startNewChat_call(pending, Task("startNewChat", "addChat", 0, Pre), model,
                       "startNewChat")
  /\ UNCHANGED <<dbChats, dbMessages, nextChatId, nextMsgId, chats, activeChat,
                 messages, ongoingAiMessages, streams, raised>>

\* line 129 resolved: lines 129-132
startNewChat_addChat(i) ==
  LET t == pending[i]
      newChat == [id |-> nextChatId, model |-> t.model, createdAt |-> t.createdAt]
  IN  /\ Ready(i) /\ t.pc = "addChat"
      /\ dbChats' = addChat(newChat)
      /\ nextChatId' = nextChatId + 1
      /\ chats' = Append(chats, newChat)
      /\ activeChat' = MemChat(newChat, TRUE)
      /\ messages' = <<>>
      /\ pending' = RemoveAt(pending, i)
      /\ last' = Step("addChat", t, TRUE, "")
      /\ UNCHANGED <<dbMessages, nextMsgId, clock, ongoingAiMessages, streams, raised>>

\* ------------------------------------------------------ initialize (81-92)
initialize ==
  LET t == Task("initialize", "getAllChats", 0, Pre)
  IN  /\ pending' = Await(pending, t)
      /\ last' = Step("initialize", t, FALSE, "")
      /\ UNCHANGED <<dbChats, dbMessages, nextChatId, nextMsgId, clock, chats,
                     activeChat, messages, ongoingAiMessages, streams, raised>>

\* the stored chats ignored
initializeHasChats_never(cs) == FALSE

\* line 84
initializeHasChats(cs) == Len(cs) > 0

\* line 83 resolved: lines 83-88.  chats.value is replaced by fresh objects, so
\* activeChat.value is no longer an element of it.
initialize_getAllChats(i) ==
  LET t == pending[i]
      rest == RemoveAt(pending, i)
      loaded == getAllChats
  IN  /\ Ready(i) /\ t.pc = "getAllChats"
      /\ chats' = loaded
      /\ activeChat' = [activeChat EXCEPT !.shared = FALSE]
      /\ IF initializeHasChats(loaded)
         THEN /\ pending' = Await(rest, [t EXCEPT !.pc = "getChat",
                                                  !.chatId = sortedChats(loaded)[1].id])
              /\ last' = Step("getAllChats", t, FALSE, "")
              /\ clock' = clock
         ELSE startNewChat_call(rest, t, "n/a", "getAllChats")
      /\ UNCHANGED <<dbChats, dbMessages, nextChatId, nextMsgId, messages,
                     ongoingAiMessages, streams, raised>>

\* ----------------------------------------------------- switchModel (107-119)
\* the guard without its hasMessages half
switchModelAllowed_noMessageCheck == hasActiveChat

\* line 108
switchModelAllowed == hasActiveChat /\ ~hasMessages

switchModel(model) ==
  LET t == [Task("switchModel", "updateChat", activeChat.id, Pre)
              EXCEPT !.chatId = activeChat.id, !.model = model]
  IN  /\ IF switchModelAllowed
         THEN /\ pending' = Await(pending, t)
              /\ last' = Step("switchModel", t, FALSE, "")
         ELSE /\ pending' = pending
              /\ last' = Step("switchModel", t, TRUE, "")
      /\ UNCHANGED <<dbChats, dbMessages, nextChatId, nextMsgId, clock, chats,
                     activeChat, messages, ongoingAiMessages, streams, raised>>

\* line 111 resolved: line 112.  With activeChat.value null the assignment throws
\* inside the try, and the catch block's own read of activeChat.value.id throws
\* again: that one escapes.
switchModel_updateChat(i) ==
  LET t == pending[i]
  IN  /\ Ready(i) /\ t.pc = "updateChat"
      /\ dbChats' = updateChat(t.chatId, t.model)
      /\ pending' = RemoveAt(pending, i)
      /\ IF hasActiveChat
         THEN /\ activeChat' = [activeChat EXCEPT !.model = t.model]
              /\ chats' = IF activeChat.shared
                          THEN [k \in DOMAIN chats |->
                                  IF chats[k].id = activeChat.id
                                  THEN [chats[k] EXCEPT !.model = t.model]
                                  ELSE chats[k]]
                          ELSE chats
              /\ raised' = raised
              /\ last' = Step("updateChat", t, TRUE, "")
         ELSE /\ UNCHANGED <<activeChat, chats>>
              /\ raised' = TRUE
              /\ last' = Step("updateChat", t, TRUE, "TypeError")
      /\ UNCHANGED <<dbMessages, nextChatId, nextMsgId, clock, messages,
                     ongoingAiMessages, streams>>

\* ------------------------------------------------ addSystemMessage (138-155)
addSystemMessage ==
  LET t == [Task("addSystemMessage", "sys_addMessage", activeChat.id, Pre)
              EXCEPT !.chatId = activeChat.id, !.role = "system", !.content = <<"s">>]
  IN  /\ IF hasActiveChat
         THEN /\ pending' = Await(pending, t)
              /\ last' = Step("addSystemMessage", t, FALSE, "")
         ELSE /\ pending' = pending
              /\ last' = Step("addSystemMessage", t, TRUE, "")
      /\ UNCHANGED <<dbChats, dbMessages, nextChatId, nextMsgId, clock, chats,
                     activeChat, messages, ongoingAiMessages, streams, raised>>

\* line 150 resolved: line 151
addSystemMessage_addMessage(i) ==
  LET t == pending[i]
      message == [id |-> nextMsgId, chatId |-> t.chatId, role |-> t.role,
                  content |-> t.content, context |-> NoCtx]
  IN  /\ Ready(i) /\ t.pc = "sys_addMessage"
      /\ dbMessages' = addMessage(message)
      /\ nextMsgId' = nextMsgId + 1
      /\ messages' = Append(messages, MemMsg(message, FALSE))
      /\ pending' = RemoveAt(pending, i)
      /\ last' = Step("sys_addMessage", t, TRUE, "")
      /\ UNCHANGED <<dbChats, nextChatId, clock, chats, activeChat,
                     ongoingAiMessages, streams, raised>>

\* -------------------------------------------------- addUserMessage (157-195)
\* lines 158-165
addUserMessage ==
  LET t == [Task("addUserMessage", "um_getMessages", activeChat.id, Pre)
              EXCEPT !.chatId = activeChat.id, !.role = "user", !.content = <<"u">>]
  IN  /\ IF hasActiveChat
         THEN /\ pending' = Await(pending, t)
              /\ last' = Step("addUserMessage", t, FALSE, "")
         ELSE /\ pending' = pending
              /\ last' = Step("addUserMessage", t, TRUE, "no active chat")
      /\ UNCHANGED <<dbChats, dbMessages, nextChatId, nextMsgId, clock, chats,
                     activeChat, messages, ongoingAiMessages, streams, raised>>

\* line 165 resolved: lines 165-174.  t.chatId is currentChatId; the message takes
\* its chatId from activeChat.value as it is now (line 168), which throws on null.
addUserMessage_getMessages(i) ==
  LET t == pending[i]
      rest == RemoveAt(pending, i)
  IN  /\ Ready(i) /\ t.pc = "um_getMessages"
      /\ messages' = Fresh(getMessages(t.chatId))
      /\ IF hasActiveChat
         THEN /\ pending' = Await(rest, [t EXCEPT !.pc = "um_addMessage",
                                                  !.msgChatId = activeChat.id])
              /\ last' = Step("um_getMessages", t, FALSE, "")
         ELSE /\ pending' = rest
              /\ last' = Step("um_getMessages", t, TRUE, "Failed to add user message")
      /\ UNCHANGED <<dbChats, dbMessages, nextChatId, nextMsgId, clock, chats,
                     activeChat, ongoingAiMessages, streams, raised>>

\* line 174 resolved: lines 174-191.  generate() is called with the model of activeChat.value as it is now
\* and with callbacks bound to currentChatId; from then on the operation awaits the
\* transport, not the store.
addUserMessage_addMessage(i) ==
  LET t == pending[i]
      message == [id |-> nextMsgId, chatId |-> t.msgChatId, role |-> t.role,
                  content |-> t.content, context |-> NoCtx]
      pushed == Append(messages, MemMsg(message, FALSE))
  IN  /\ Ready(i) /\ t.pc = "um_addMessage"
      /\ dbMessages' = addMessage(message)
      /\ nextMsgId' = nextMsgId + 1
      /\ messages' = pushed
      /\ pending' = RemoveAt(pending, i)
      /\ IF hasActiveChat
         THEN /\ streams' = Append(streams,
                   [chatId |-> t.chatId, model |-> activeChat.model,
                    context |-> lastMessageWithContext(pushed),
                    msgChatId |-> t.msgChatId, delivered |-> <<>>])
              /\ last' = Step("um_addMessage", t, FALSE, "")
         ELSE /\ streams' = streams
              /\ last' = Step("um_addMessage", t, TRUE, "Failed to add user message")
      /\ UNCHANGED <<dbChats, nextChatId, clock, chats, activeChat,
                     ongoingAiMessages, raised>>

\* ------------------------------------------- streaming aggregator (197-295)
StreamTask(pc, chatId) == [Task("stream", pc, chatId, NoPre) EXCEPT !.chatId = chatId]

\* lines 265-274: startAiMessage up to its await
startAiMessage(initialContent, chatId) ==
  LET t == [StreamTask("st_addMessage", chatId)
              EXCEPT !.role = "assistant", !.content = initialContent]
  IN  /\ pending' = Await(pending, t)
      /\ last' = Step("partial", t, FALSE, "")
      /\ UNCHANGED <<messages, ongoingAiMessages>>

\* line 274 resolved: lines 274-276
startAiMessage_addMessage(i) ==
  LET t == pending[i]
      message == [id |-> nextMsgId, chatId |-> t.chatId, role |-> t.role,
                  content |-> t.content, context |-> NoCtx]
  IN  /\ Ready(i) /\ t.pc = "st_addMessage"
      /\ dbMessages' = addMessage(message)
      /\ nextMsgId' = nextMsgId + 1
      /\ ongoingAiMessages' =
           [c \in DOMAIN ongoingAiMessages \cup {t.chatId} |->
              IF c = t.chatId THEN message ELSE ongoingAiMessages[c]]
      /\ messages' = Append(messages, MemMsg(message, TRUE))
      /\ pending' = RemoveAt(pending, i)
      /\ last' = Step("st_addMessage", t, TRUE, "")
      /\ UNCHANGED <<dbChats, nextChatId, clock, chats, activeChat, streams, raised>>

\* lines 283-287: appendToAiMessage up to its await (called only with an entry)
appendToAiMessage(content, chatId) ==
  LET aiMessage == ongoingAiMessages[chatId]
      grown == aiMessage.content \o content
      t == [StreamTask("ap_updateMessage", chatId)
              EXCEPT !.msgId = aiMessage.id, !.content = grown]
  IN  /\ ongoingAiMessages' = [ongoingAiMessages EXCEPT ![chatId].content = grown]
      /\ messages' = Mutate(messages, aiMessage.id, grown)
      /\ pending' = Await(pending, t)
      /\ last' = Step("partial", t, FALSE, "")

\* line 287 resolved: line 288 up to its await
appendToAiMessage_updateMessage(i) ==
  LET t == pending[i]
  IN  /\ Ready(i) /\ t.pc = "ap_updateMessage"
      /\ dbMessages' = updateMessageContent(t.msgId, t.content)
      /\ pending' = Await(RemoveAt(pending, i), [t EXCEPT !.pc = "ap_getMessages"])
      /\ last' = Step("ap_updateMessage", t, FALSE, "")
      /\ UNCHANGED <<dbChats, nextChatId, nextMsgId, clock, chats, activeChat,
                     messages, ongoingAiMessages, streams, raised>>

\* the append of line 285 rolled back when the write is rejected
appendToAiMessage_updateMessage_rollback(i) ==
  LET t == pending[i]
      kept == SubSeq(t.content, 1, Len(t.content) - 1)
  IN  /\ Ready(i) /\ t.pc = "ap_updateMessage"
      /\ pending' = RemoveAt(pending, i)
      /\ ongoingAiMessages' =
           [c \in DOMAIN ongoingAiMessages |->
              IF ongoingAiMessages[c].id = t.msgId
              THEN [ongoingAiMessages[c] EXCEPT !.content = kept]
              ELSE ongoingAiMessages[c]]
      /\ messages' = Mutate(messages, t.msgId, kept)
      /\ last' = Step("ap_updateMessage", t, TRUE, "Failed to append to AI message")
      /\ UNCHANGED <<dbChats, dbMessages, nextChatId, nextMsgId, clock, chats,
                     activeChat, streams, raised>>

\* the request of line 287 rejected: the catch of lines 289-291.  The store is as
\* it was; the content appended at line 285 stays.
appendToAiMessage_updateMessage_rejected(i) ==
  LET t == pending[i]
  IN  /\ Ready(i) /\ t.pc = "ap_updateMessage"
      /\ pending' = RemoveAt(pending, i)
      /\ last' = Step("ap_updateMessage", t, TRUE, "Failed to append to AI message")
      /\ UNCHANGED <<dbChats, dbMessages, nextChatId, nextMsgId, clock, chats,
                     activeChat, messages, ongoingAiMessages, streams, raised>>

\* line 288 resolved: setMessages
appendToAiMessage_getMessages(i) ==
  LET t == pending[i]
  IN  /\ Ready(i) /\ t.pc = "ap_getMessages"
      /\ messages' = Fresh(getMessages(t.chatId))
      /\ pending' = RemoveAt(pending, i)
      /\ last' = Step("ap_getMessages", t, TRUE, "")
      /\ UNCHANGED <<dbChats, dbMessages, nextChatId, nextMsgId, clock, chats,
                     activeChat, ongoingAiMessages, streams, raised>>

\* lines 197-204
handleAiPartialResponse(response, chatId) ==
  IF chatId \in DOMAIN ongoingAiMessages
  THEN appendToAiMessage(response, chatId)
  ELSE startAiMessage(response, chatId)

\* a message made up for the completion that found none
noOngoingMessage_synthetic(context, chatId, n) ==
  LET message == [id |-> nextMsgId, chatId |-> chatId, role |-> "assistant",
                  content |-> <<>>, context |-> context]
  IN  /\ dbMessages' = addMessage(message)
      /\ nextMsgId' = nextMsgId + 1
      /\ messages' = Append(messages, MemMsg(message, FALSE))
      /\ last' = Step("complete", [StreamTask("", chatId) EXCEPT !.context = context,
                                                                !.n = n],
                      TRUE, "no ongoing message to finalize")
      /\ UNCHANGED <<ongoingAiMessages, pending>>

\* lines 219-223: handleAiCompletion without an in-flight message
noOngoingMessage(context, chatId, n) ==
  /\ last' = Step("complete", [StreamTask("", chatId) EXCEPT !.context = context,
                                                            !.n = n],
                  TRUE, "no ongoing message to finalize")
  /\ UNCHANGED <<dbMessages, nextMsgId, messages, ongoingAiMessages, pending>>

\* lines 206-224, up to the await of line 213
handleAiCompletion(context, chatId, n) ==
  IF chatId \in DOMAIN ongoingAiMessages
  THEN LET t == [StreamTask("fin_updateMessage", chatId)
                   EXCEPT !.msgId = ongoingAiMessages[chatId].id,
                          !.context = context, !.n = n]
       IN  /\ pending' = Await(pending, t)
           /\ last' = Step("complete", t, FALSE, "")
           /\ UNCHANGED <<dbMessages, nextMsgId, messages, ongoingAiMessages>>
  ELSE noOngoingMessage(context, chatId, n)

\* line 213 resolved: lines 213-215
handleAiCompletion_updateMessage(i) ==
  LET t == pending[i]
  IN  /\ Ready(i) /\ t.pc = "fin_updateMessage"
      /\ dbMessages' = updateMessageContext(t.msgId, t.context)
      /\ ongoingAiMessages' =
           [c \in DOMAIN ongoingAiMessages \ {t.chatId} |-> ongoingAiMessages[c]]
      /\ pending' = RemoveAt(pending, i)
      /\ last' = Step("fin_updateMessage", t, TRUE, "finalized message")
      /\ UNCHANGED <<dbChats, nextChatId, nextMsgId, clock, chats, activeChat,
                     messages, streams, raised>>

\* The completion transport (useAI.generate, lines 185-191): partial events, then
\* one complete event, each a synchronous call of the callback bound to the chatId.
PartialWithin(max, s, f) ==
  /\ s \in DOMAIN streams
  /\ Len(streams[s].delivered) < max
  /\ handleAiPartialResponse(<<f>>, streams[s].chatId)
  /\ streams' = [streams EXCEPT ![s].delivered = Append(@, f)]
  /\ UNCHANGED <<dbChats, dbMessages, nextChatId, nextMsgId, clock, chats,
                 activeChat, raised>>

Partial(s, f) == PartialWithin(MaxFrags, s, f)

Complete(s, token) ==
  /\ s \in DOMAIN streams
  /\ handleAiCompletion(token, streams[s].chatId, Len(streams[s].delivered))
  /\ streams' = RemoveAt(streams, s)
  /\ UNCHANGED <<dbChats, nextChatId, clock, chats, activeChat, raised>>

\* --------------------------------------------------- wipeDatabase (226-243)
wipeDatabase ==
  LET t == Task("wipeDatabase", "clearChats", 0, Pre)
  IN  /\ pending' = Await(pending, t)
      /\ last' = Step("wipeDatabase", t, FALSE, "")
      /\ UNCHANGED <<dbChats, dbMessages, nextChatId, nextMsgId, clock, chats,
                     activeChat, messages, ongoingAiMessages, streams, raised>>

\* line 228 resolved
wipeDatabase_clearChats(i) ==
  LET t == pending[i]
  IN  /\ Ready(i) /\ t.pc = "clearChats"
      /\ dbChats' = <<>>
      /\ pending' = Await(RemoveAt(pending, i), [t EXCEPT !.pc = "clearMessages"])
      /\ last' = Step("clearChats", t, FALSE, "")
      /\ UNCHANGED <<dbMessages, nextChatId, nextMsgId, clock, chats, activeChat,
                     messages, ongoingAiMessages, streams, raised>>

\* line 231 and the ?? of line 239
wipeModel == IF hasActiveChat THEN activeChat.model ELSE "none"

\* line 229 resolved: lines 229-239, up to startNewChat's await
wipeDatabase_clearMessages(i) ==
  LET t == pending[i]
  IN  /\ Ready(i) /\ t.pc = "clearMessages"
      /\ dbMessages' = <<>>
      /\ chats' = <<>>
      /\ activeChat' = NoChat
      /\ messages' = <<>>
      /\ ongoingAiMessages' = <<>>
      /\ startNewChat_call(RemoveAt(pending, i), t, wipeModel, "clearMessages")
      /\ UNCHANGED <<dbChats, nextChatId, nextMsgId, streams, raised>>

\* ----------------------------------------------------- deleteChat (245-263)
deleteChat(chatId) ==
  LET t == [Task("deleteChat", "deleteChat", chatId, Pre) EXCEPT !.chatId = chatId]
  IN  /\ pending' = Await(pending, t)
      /\ last' = Step("deleteChat", t, FALSE, "")
      /\ UNCHANGED <<dbChats, dbMessages, nextChatId, nextMsgId, clock, chats,
                     activeChat, messages, ongoingAiMessages, streams, raised>>

\* line 247 resolved
deleteChat_deleteChat(i) ==
  LET t == pending[i]
  IN  /\ Ready(i) /\ t.pc = "deleteChat"
      /\ dbChats' = deleteChatRow(t.chatId)
      /\ pending' = Await(RemoveAt(pending, i), [t EXCEPT !.pc = "deleteMessages"])
      /\ last' = Step("deleteChat_row", t, FALSE, "")
      /\ UNCHANGED <<dbMessages, nextChatId, nextMsgId, clock, chats, activeChat,
                     messages, ongoingAiMessages, streams, raised>>

\* the deleted chat's model dropped for the sentinel
fallbackModel_sentinel == "none"

\* line 256
fallbackModel == activeChat.model

\* line 248 resolved: lines 248-257, up to the await of switchChat or startNewChat
deleteChat_deleteMessages(i) ==
  LET t == pending[i]
      rest == RemoveAt(pending, i)
      kept == SelectSeq(chats, LAMBDA c : c.id # t.chatId)
  IN  /\ Ready(i) /\ t.pc = "deleteMessages"
      /\ dbMessages' = deleteMessagesOfChat(t.chatId)
      /\ chats' = kept
      /\ IF hasActiveChat /\ activeChat.id = t.chatId
         THEN IF Len(sortedChats(kept)) > 0
              THEN /\ pending' = Await(rest, [t EXCEPT !.pc = "getChat",
                                                       !.chatId = sortedChats(kept)[1].id])
                   /\ last' = Step("deleteMessages", t, FALSE, "")
                   /\ clock' = clock
              ELSE startNewChat_call(rest, t, fallbackModel, "deleteMessages")
         ELSE /\ pending' = rest
              /\ last' = Step("deleteMessages", t, TRUE, "")
              /\ clock' = clock
      /\ UNCHANGED <<dbChats, nextChatId, nextMsgId, activeChat, messages,
                     ongoingAiMessages, streams, raised>>

\* ------------------------------------------------------------ specification
\* A fresh installation: empty store, and the module state as lines 57-60 build it.
Fresh0 ==
  /\ chats = <<>> /\ activeChat = NoChat /\ messages = <<>>
  /\ ongoingAiMessages = <<>>
  /\ pending = <<>> /\ streams = <<>>
  /\ raised = FALSE
  /\ last = Step("init", Task("", "", 0, NoPre), TRUE, "")

Init ==
  /\ dbChats = <<>> /\ dbMessages = <<>>
  /\ nextChatId = 1 /\ nextMsgId = 1 /\ clock = 0
  /\ Fresh0

\* the store's key generators are capped: a step that will create a row needs room
Adders == {"sys_addMessage", "um_getMessages", "um_addMessage", "st_addMessage"}
MsgRoom(max) ==
  nextMsgId + Cardinality({i \in DOMAIN pending : pending[i].pc \in Adders}) <= max
ChatRoom(max) == nextChatId <= max
deleteCreates(chatId) ==
  hasActiveChat /\ activeChat.id = chatId /\ \A k \in DOMAIN chats : chats[k].id = chatId

\* the store answers an outstanding request of a session operation
ResolveSession ==
  \/ \E i \in DOMAIN pending : initialize_getAllChats(i)
  \/ \E i \in DOMAIN pending : switchChat_getChat(i)
  \/ \E i \in DOMAIN pending : switchChat_getMessages(i)
  \/ \E i \in DOMAIN pending : switchModel_updateChat(i)
  \/ \E i \in DOMAIN pending : startNewChat_addChat(i)
  \/ \E i \in DOMAIN pending : addSystemMessage_addMessage(i)
  \/ \E i \in DOMAIN pending : wipeDatabase_clearChats(i)
  \/ \E i \in DOMAIN pending : wipeDatabase_clearMessages(i)
  \/ \E i \in DOMAIN pending : deleteChat_deleteChat(i)
  \/ \E i \in DOMAIN pending : deleteChat_deleteMessages(i)

\* the store answers an outstanding request of addUserMessage or of a stream handler
ResolveStream ==
  \/ \E i \in DOMAIN pending : addUserMessage_getMessages(i)
  \/ \E i \in DOMAIN pending : addUserMessage_addMessage(i)
  \/ \E i \in DOMAIN pending : startAiMessage_addMessage(i)
  \/ \E i \in DOMAIN pending : appendToAiMessage_updateMessage(i)
  \/ \E i \in DOMAIN pending : appendToAiMessage_getMessages(i)
  \/ \E i \in DOMAIN pending : handleAiCompletion_updateMessage(i)

\* the transport delivers an event of a running generate() call
Transport(max) ==
  \/ \E s \in DOMAIN streams, f \in Frags :
       /\ streams[s].chatId \in DOMAIN ongoingAiMessages \/ MsgRoom(max)
       /\ Partial(s, f)
  \/ \E s \in DOMAIN streams, tok \in Tokens : Complete(s, tok)

\* Spec: the session operations on chats and system messages.  Public operations
\* are called one at a time: none is called while another is suspended at a store
\* request.
Next ==
  \/ Idle /\ (dbChats = <<>> => ChatRoom(MaxChatId)) /\ initialize
  \/ \E id \in 1..MaxChatId : Idle /\ switchChat(id)
  \/ \E m \in SwitchTo : Idle /\ switchModel(m)
  \/ \E m \in Models : Idle /\ ChatRoom(MaxChatId) /\ startNewChat(m)
  \/ Idle /\ MsgRoom(MaxMsgId) /\ addSystemMessage
  \/ \E id \in 1..MaxChatId :
       Idle /\ (deleteCreates(id) => ChatRoom(MaxChatId)) /\ deleteChat(id)
  \/ Idle /\ ChatRoom(MaxChatId) /\ wipeDatabase
  \/ ResolveSession

Spec == Init /\ [][Next]_vars

\* SpecStream: one chat, user messages and the streamed answers.  The user sends a
\* message when no generate() call is running; transport events arrive at any time,
\* also while store requests are outstanding.
NextStream ==
  \/ Idle /\ dbChats = <<>> /\ initialize
  \/ \E i \in DOMAIN pending : initialize_getAllChats(i)
  \/ \E i \in DOMAIN pending : startNewChat_addChat(i)
  \/ Idle /\ streams = <<>> /\ MsgRoom(MaxStreamMsgId) /\ addUserMessage
  \/ ResolveStream
  \/ Transport(MaxStreamMsgId)

SpecStream == Init /\ [][NextStream]_vars

\* SpecWipe: SpecStream with wipeDatabase.
NextWipe ==
  \/ Idle /\ dbChats = <<>> /\ initialize
  \/ \E i \in DOMAIN pending : initialize_getAllChats(i)
  \/ \E i \in DOMAIN pending : startNewChat_addChat(i)
  \/ Idle /\ streams = <<>> /\ MsgRoom(MaxStreamMsgId) /\ addUserMessage
  \/ Idle /\ ChatRoom(MaxChatId) /\ wipeDatabase
  \/ \E i \in DOMAIN pending : wipeDatabase_clearChats(i)
  \/ \E i \in DOMAIN pending : wipeDatabase_clearMessages(i)
  \/ ResolveStream
  \/ Transport(MaxStreamMsgId)

SpecWipe == Init /\ [][NextWipe]_vars

\* SpecHistory: a session that starts on the store an earlier session left: two
\* chats and up to MaxHist messages, a user message without context, an assistant
\* message with or without one.  One more user message is sent.
HistRows ==
  {[chatId |-> c, role |-> "user", context |-> NoCtx] : c \in {1, 2}}
    \cup {[chatId |-> c, role |-> "assistant", context |-> x] :
            c \in {1, 2}, x \in Tokens \cup {NoCtx}}
Histories == UNION {[1..n -> HistRows] : n \in 0..MaxHist}

InitHistory ==
  /\ dbChats = <<[id |-> 1, model |-> "m1", createdAt |-> 1],
                 [id |-> 2, model |-> "m2", createdAt |-> 2]>>
  /\ \E h \in Histories :
       /\ dbMessages = [i \in DOMAIN h |->
                          [id |-> i, chatId |-> h[i].chatId, role |-> h[i].role,
                           content |-> <<"h">>, context |-> h[i].context]]
       /\ nextMsgId = Len(h) + 1
  /\ nextChatId = 3 /\ clock = 2
  /\ Fresh0

NextHistory ==
  \/ Idle /\ initialize
  \/ \E id \in {1, 2} : Idle /\ switchChat(id)
  \/ Idle /\ streams = <<>> /\ addUserMessage
  \/ \E i \in DOMAIN pending : initialize_getAllChats(i)
  \/ \E i \in DOMAIN pending : switchChat_getChat(i)
  \/ \E i \in DOMAIN pending : switchChat_getMessages(i)
  \/ \E i \in DOMAIN pending : addUserMessage_getMessages(i)
  \/ \E i \in DOMAIN pending : addUserMessage_addMessage(i)

SpecHistory == InitHistory /\ [][NextHistory]_vars

\* fewer than max public operations are suspended at a store request
Calls(max) ==
  Cardinality({i \in DOMAIN pending : pending[i].op \in PublicOps}) < max

\* SpecOverlap: the consumer calls an operation while another one is suspended at
\* a store request (spec section 5: two operations invoked back-to-back interleave
\* their suspended phases).
NextOverlap ==
  \/ Calls(MaxCalls) /\ dbChats = <<>> /\ ChatRoom(MaxOverlapChatId) /\ initialize
  \/ \E id \in 1..MaxOverlapChatId : Calls(MaxCalls) /\ switchChat(id)
  \/ \E m \in SwitchTo : Calls(MaxCalls) /\ switchModel(m)
  \/ Calls(MaxCalls) /\ MsgRoom(MaxOverlapMsgId) /\ addSystemMessage
  \/ Calls(MaxCalls) /\ ChatRoom(MaxOverlapChatId) /\ wipeDatabase
  \/ \E i \in DOMAIN pending : initialize_getAllChats(i)
  \/ \E i \in DOMAIN pending : switchChat_getChat(i)
  \/ \E i \in DOMAIN pending : switchChat_getMessages(i)
  \/ \E i \in DOMAIN pending : switchModel_updateChat(i)
  \/ \E i \in DOMAIN pending : startNewChat_addChat(i)
  \/ \E i \in DOMAIN pending : addSystemMessage_addMessage(i)
  \/ \E i \in DOMAIN pending : wipeDatabase_clearChats(i)
  \/ \E i \in DOMAIN pending : wipeDatabase_clearMessages(i)

SpecOverlap == Init /\ [][NextOverlap]_vars

\* SpecTwo: a session on a store that holds two chats without messages.  The user
\* sends a message in one chat, switches to the other and sends one there while
\* the first answer streams; a chat gets a message when no generate() call of that
\* chat is running.
InitTwo ==
  /\ dbChats = <<[id |-> 1, model |-> "m1", createdAt |-> 1],
                 [id |-> 2, model |-> "m2", createdAt |-> 2]>>
  /\ dbMessages = <<>> /\ nextMsgId = 1
  /\ nextChatId = 3 /\ clock = 2
  /\ Fresh0

Streaming(chatId) == \E s \in DOMAIN streams : streams[s].chatId = chatId

\* the transport of SpecTwo: the events of a chat's generate() call carry that
\* chat's own text and token, so that the origin of stored text can be told
FragOf(chatId) == IF chatId = 1 THEN "a" ELSE "b"
TokenOf(chatId) == IF chatId = 1 THEN "t1" ELSE "t2"
TransportTwo ==
  \/ \E s \in DOMAIN streams :
       /\ streams[s].chatId \in DOMAIN ongoingAiMessages \/ MsgRoom(MaxTwoMsgId)
       /\ Partial(s, FragOf(streams[s].chatId))
  \/ \E s \in DOMAIN streams : Complete(s, TokenOf(streams[s].chatId))

NextTwo ==
  \/ Idle /\ ~hasActiveChat /\ initialize
  \/ \E id \in {1, 2} : Idle /\ hasActiveChat /\ switchChat(id)
  \/ Idle /\ ~Streaming(activeChat.id) /\ MsgRoom(MaxTwoMsgId) /\ addUserMessage
  \/ \E i \in DOMAIN pending : initialize_getAllChats(i)
  \/ \E i \in DOMAIN pending : switchChat_getChat(i)
  \/ \E i \in DOMAIN pending : switchChat_getMessages(i)
  \/ ResolveStream
  \/ TransportTwo

SpecTwo == InitTwo /\ [][NextTwo]_vars

\* SpecDelete: SpecStream with deleteChat.  Only one chat exists at a time, so the
\* deletion of the active chat ends in startNewChat.
NextDelete ==
  \/ Idle /\ dbChats = <<>> /\ ChatRoom(MaxChatId) /\ initialize
  \/ \E i \in DOMAIN pending : initialize_getAllChats(i)
  \/ \E i \in DOMAIN pending : startNewChat_addChat(i)
  \/ Idle /\ streams = <<>> /\ MsgRoom(MaxStreamMsgId) /\ addUserMessage
  \/ \E id \in 1..MaxChatId :
       Idle /\ (deleteCreates(id) => ChatRoom(MaxChatId)) /\ deleteChat(id)
  \/ \E i \in DOMAIN pending : deleteChat_deleteChat(i)
  \/ \E i \in DOMAIN pending : deleteChat_deleteMessages(i)
  \/ ResolveStream
  \/ Transport(MaxStreamMsgId)

SpecDelete == Init /\ [][NextDelete]_vars

\* SpecTwice: SpecStream where the user sends the next message while the answer
\* to the one before still streams: addUserMessage does not wait for a running
\* generate() call.
NextTwice ==
  \/ Idle /\ dbChats = <<>> /\ initialize
  \/ \E i \in DOMAIN pending : initialize_getAllChats(i)
  \/ \E i \in DOMAIN pending : startNewChat_addChat(i)
  \/ Idle /\ Len(streams) < MaxGen /\ MsgRoom(MaxStreamMsgId) /\ addUserMessage
  \/ ResolveStream
  \/ Transport(MaxStreamMsgId)

SpecTwice == Init /\ [][NextTwice]_vars

\* SpecRetarget: the active chat changes (startNewChat, switchChat) while
\* addUserMessage is suspended at a store request.  The specification ends at the
\* generate() call; what the transport then delivers is in SpecStream and SpecTwo.
NextRetarget ==
  \/ Calls(MaxCalls) /\ dbChats = <<>> /\ ChatRoom(MaxOverlapChatId) /\ initialize
  \/ \E m \in Models : Calls(MaxCalls) /\ ChatRoom(MaxOverlapChatId) /\ startNewChat(m)
  \/ \E id \in 1..MaxOverlapChatId : Calls(MaxCalls) /\ switchChat(id)
  \/ Calls(MaxCalls) /\ MsgRoom(MaxRetargetMsgId) /\ addUserMessage
  \/ \E i \in DOMAIN pending : initialize_getAllChats(i)
  \/ \E i \in DOMAIN pending : startNewChat_addChat(i)
  \/ \E i \in DOMAIN pending : switchChat_getChat(i)
  \/ \E i \in DOMAIN pending : switchChat_getMessages(i)
  \/ \E i \in DOMAIN pending : addUserMessage_getMessages(i)
  \/ \E i \in DOMAIN pending : addUserMessage_addMessage(i)

SpecRetarget == Init /\ [][NextRetarget]_vars

\* SpecFail: SpecStream on a store that may reject the content update of an
\* APPEND (dbLayer.updateMessage of line 287).
NextFail ==
  \/ Idle /\ dbChats = <<>> /\ initialize
  \/ \E i \in DOMAIN pending : initialize_getAllChats(i)
  \/ \E i \in DOMAIN pending : startNewChat_addChat(i)
  \/ Idle /\ streams = <<>> /\ MsgRoom(MaxStreamMsgId) /\ addUserMessage
  \/ ResolveStream
  \/ \E i \in DOMAIN pending : appendToAiMessage_updateMessage_rejected(i)
  \/ \E s \in DOMAIN streams, f \in Frags :
       /\ streams[s].chatId \in DOMAIN ongoingAiMessages \/ MsgRoom(MaxStreamMsgId)
       /\ PartialWithin(MaxFailFrags, s, f)
  \/ \E s \in DOMAIN streams, tok \in Tokens : Complete(s, tok)

SpecFail == Init /\ [][NextFail]_vars

\* ------------------------------------------------------------- properties
ChatIds(cs) == {cs[k].id : k \in DOMAIN cs}
MessagesOf(rows, chatId, role) ==
  {k \in DOMAIN rows : rows[k].chatId = chatId /\ rows[k].role = role}
StreamTasks == {i \in DOMAIN pending : pending[i].op = "stream"}

\* C1: while the first generation of a chat streams, the content of the chat's
\* in-flight message is the concatenation, in delivery order, of the fragments
\* delivered so far.
C1_ContentIsConcatenation ==
  \A s \in DOMAIN streams :
    LET c == streams[s].chatId
    IN  (Cardinality(MessagesOf(dbMessages, c, "user")) = 1
           /\ c \in DOMAIN ongoingAiMessages)
          => ongoingAiMessages[c].content = streams[s].delivered

\* C2: a chat that has had one addUserMessage call has at most one assistant
\* message, in the store and in the message list, and exactly one once the complete
\* event of a stream with at least one partial has been handled and no handler is
\* suspended.
C2_OneAssistantMessage ==
  \A c \in 1..MaxChatId :
    Cardinality(MessagesOf(dbMessages, c, "user")) = 1
      => /\ Cardinality(MessagesOf(dbMessages, c, "assistant")) <= 1
         /\ Cardinality(MessagesOf(messages, c, "assistant")) <= 1
         /\ (last.step \in {"complete", "fin_updateMessage"} /\ last.end
               /\ last.arg = c /\ last.n >= 1 /\ StreamTasks = {})
              => Cardinality(MessagesOf(dbMessages, c, "assistant")) = 1

\* C3: when handleAiCompletion has returned for a stream that delivered at least
\* one partial, the chat has no in-flight entry and an assistant message of the
\* chat carries the token of the complete event.
C3_CompleteFinalizes ==
  (last.step \in {"complete", "fin_updateMessage"} /\ last.end /\ last.n >= 1)
    => /\ last.arg \notin DOMAIN ongoingAiMessages
       /\ \E k \in MessagesOf(dbMessages, last.arg, "assistant") :
            dbMessages[k].context = last.context

\* C4: a complete event for a chat without an in-flight entry returns at once,
\* logs the inconsistency, raises nothing and changes neither the store, the chat
\* cache, the active chat, the message list, the in-flight map nor the outstanding
\* requests.
C4_CompleteWithoutEntry ==
  [][(last'.step = "complete" /\ last'.arg \notin DOMAIN ongoingAiMessages)
       => /\ last'.end
          /\ last'.log = "no ongoing message to finalize"
          /\ ~raised'
          /\ UNCHANGED <<dbChats, dbMessages, nextMsgId, chats, activeChat, messages,
                         ongoingAiMessages, pending>>]_vars
C4_Witness ==
  /\ last.step = "complete" /\ last.end
  /\ last.log = "no ongoing message to finalize"

\* no stored chat, and no active chat, that is there before and after the step
\* has another model after it (the chat cache is compared apart: it is reloaded
\* from the store by initialize)
ChatModelsUnchanged ==
  /\ \A i \in DOMAIN dbChats, j \in DOMAIN dbChats' :
       dbChats[i].id = dbChats'[j].id => dbChats[i].model = dbChats'[j].model
  /\ (activeChat.id # 0 /\ activeChat'.id = activeChat.id)
       => activeChat'.model = activeChat.model

\* C5: switchModel called without an active chat or with a non-empty message list
\* returns at once and changes no chat, stored, cached or active; the model of a
\* stored chat or of the active chat changes only in the step of a switchModel call
\* that found an active chat and an empty message list, and that step sets the
\* model of that chat, in the store and in activeChat.
C5_SwitchModelGuard ==
  [][/\ (last'.step = "switchModel" /\ (~hasActiveChat \/ hasMessages))
          => /\ last'.end /\ pending' = pending
             /\ UNCHANGED <<dbChats, chats, activeChat>>
     /\ ~ChatModelsUnchanged
          => /\ last'.step = "updateChat"
             /\ last'.arg # 0 /\ last'.pre.active = last'.arg
             /\ ~last'.pre.hasMsgs
     /\ last'.step = "updateChat"
          => /\ activeChat'.id = last'.arg /\ activeChat'.model = last'.model
             /\ \A k \in DOMAIN dbChats' :
                  dbChats'[k].id = last'.arg => dbChats'[k].model = last'.model]_vars
C5_Witness ==
  /\ last.step = "switchModel" /\ last.end
  /\ last.pre.active # 0 /\ last.pre.hasMsgs
  /\ activeChat.model # last.model

\* C6: deleteChat of the active chat, with another chat in the store, ends with
\* the active chat a stored chat other than the deleted one that no stored chat
\* was created after, and with the message list equal to its stored messages.
C6_DeleteActiveSwitchesToNewest ==
  (last.op = "deleteChat" /\ last.end /\ last.pre.active = last.arg
     /\ last.pre.db \ {last.arg} # {})
    => /\ activeChat.id # last.arg
       /\ activeChat.id \in ChatIds(dbChats)
       /\ \A k \in DOMAIN dbChats : dbChats[k].createdAt <= activeChat.createdAt
       /\ SeqMap(StoreMsg, messages) = getMessages(activeChat.id)
C6_Witness ==
  /\ last.op = "deleteChat" /\ last.end /\ last.pre.active = last.arg
  /\ Cardinality(last.pre.db \ {last.arg}) >= 2
  /\ messages # <<>>

\* C7: deleteChat of the only stored chat ends with exactly one chat in the store
\* and in the chat cache, a new one, active, with the deleted chat's model.
C7_DeleteLastCreatesOne ==
  (last.op = "deleteChat" /\ last.end /\ last.pre.db = {last.arg})
    => /\ Len(dbChats) = 1 /\ Len(chats) = 1
       /\ dbChats[1].id # last.arg
       /\ chats[1] = dbChats[1]
       /\ activeChat.id = dbChats[1].id
       /\ dbChats[1].model = last.pre.model /\ activeChat.model = last.pre.model
C7_Witness ==
  /\ last.op = "deleteChat" /\ last.end /\ last.pre.db = {last.arg}
  /\ last.pre.model \in Models

\* C8: initialize on an empty store ends with one chat, active, and an empty
\* message list; on a store with chats it creates none and ends with a stored chat
\* active that no stored chat was created after.
C8_Initialize ==
  (last.op = "initialize" /\ last.end)
    => IF last.pre.db = {}
       THEN /\ Len(dbChats) = 1 /\ Len(chats) = 1
            /\ activeChat.id = dbChats[1].id
            /\ messages = <<>>
       ELSE /\ ChatIds(dbChats) = last.pre.db /\ nextChatId = last.pre.nextId
            /\ activeChat.id \in last.pre.db
            /\ \A k \in DOMAIN dbChats : dbChats[k].createdAt <= activeChat.createdAt
C8_Witness ==
  /\ last.op = "initialize" /\ last.end
  /\ Cardinality(last.pre.db) >= 2
  /\ last.pre.active # activeChat.id

\* the context of the newest stored message of the chat that carries one
RECURSIVE newestContext(_, _, _)
newestContext(rows, n, chatId) ==
  IF n = 0 THEN NoCtx
  ELSE IF rows[n].chatId = chatId /\ rows[n].context # NoCtx THEN rows[n].context
  ELSE newestContext(rows, n - 1, chatId)

\* C9: the generate() call of addUserMessage receives the context of the newest
\* stored message of the active chat that carries one, and none when no message of
\* the chat carries one.
C9_ContextPassed ==
  last.step = "um_addMessage"
    => LET g == streams[Len(streams)]
       IN  /\ g.chatId = activeChat.id
           /\ g.context = newestContext(dbMessages, Len(dbMessages), activeChat.id)
C9_Witness ==
  /\ last.step = "um_addMessage"
  /\ \E i, j \in DOMAIN dbMessages :
       /\ i < j
       /\ dbMessages[i].chatId = activeChat.id /\ dbMessages[j].chatId = activeChat.id
       /\ dbMessages[i].context # NoCtx /\ dbMessages[j].context # NoCtx
       /\ dbMessages[i].context # dbMessages[j].context
       /\ streams[Len(streams)].context = dbMessages[j].context
       /\ \E k \in DOMAIN dbMessages :
            dbMessages[k].chatId # activeChat.id /\ dbMessages[k].context # NoCtx

\* C10: when wipeDatabase has returned, the store holds one chat and no message,
\* the in-flight map is empty, the chat cache holds that chat, it is active, and
\* its model is the model of the chat that was active at the call, or "none".
C10_WipeLeavesOneChat ==
  (last.op = "wipeDatabase" /\ last.end)
    => /\ Len(dbChats) = 1 /\ dbMessages = <<>>
       /\ DOMAIN ongoingAiMessages = {}
       /\ chats = dbChats
       /\ activeChat.id = dbChats[1].id
       /\ activeChat.model = IF last.pre.active # 0 THEN last.pre.model ELSE "none"

\* C11: no public operation raises to its caller, under every interleaving of
\* operations at their suspension points.
C11_NeverRaises == ~raised

\* the chat has an assistant message that a partial event created and whose
\* complete event is still to come or is being handled
AwaitingCompletion(c) ==
  \/ \E s \in DOMAIN streams :
        /\ streams[s].chatId = c /\ streams[s].delivered # <<>>
        /\ \E k \in MessagesOf(dbMessages, c, "assistant") :
             dbMessages[k].context = NoCtx
  \/ \E i \in DOMAIN pending :
        pending[i].pc = "fin_updateMessage" /\ pending[i].chatId = c

\* C12: the in-flight map has an entry for a chat exactly when the chat has an
\* assistant message that received a partial and awaits its complete event; no
\* entry is there once the complete event of its stream has been handled.
C12_EntryIffAwaitingCompletion ==
  \A c \in 1..MaxChatId : c \in DOMAIN ongoingAiMessages <=> AwaitingCompletion(c)

\* C13: whenever no public operation is suspended, every message of the visible
\* message list belongs to the active chat.
C13_ListOfActiveChat ==
  Idle => \A k \in DOMAIN messages : messages[k].chatId = activeChat.id

\* a step of a stream handler of one chat leaves the stored content and context of
\* every other chat's messages, and every other chat's in-flight entry, as they were
StreamIsolation ==
  last'.op = "stream"
    => \A c \in ChatIds(dbChats) \ {last'.arg} :
         /\ getMessages(c) = SelectSeq(dbMessages', LAMBDA m : m.chatId = c)
         /\ (c \in DOMAIN ongoingAiMessages) = (c \in DOMAIN ongoingAiMessages')
         /\ c \in DOMAIN ongoingAiMessages
              => ongoingAiMessages'[c] = ongoingAiMessages[c]

\* while both chats stream, the in-flight message of each holds the fragments
\* delivered for that chat, all of them and in order
FragmentsExact ==
  (Streaming(1) /\ Streaming(2))
    => \A s \in DOMAIN streams :
         streams[s].chatId \in DOMAIN ongoingAiMessages
           => ongoingAiMessages[streams[s].chatId].content = streams[s].delivered

\* C14: with two chats streaming at the same time, each chat's assistant message
\* receives exactly the fragments delivered for its own chat, and an event for one
\* chat changes neither the content, the context nor the in-flight entry of the
\* other.
C14_NoCrossContamination == [][StreamIsolation /\ FragmentsExact']_vars

\* C15: when deleteChat(id) has returned, the in-flight map has no entry for id.
C15_DeleteClearsEntry ==
  (last.op = "deleteChat" /\ last.end) => last.arg \notin DOMAIN ongoingAiMessages

\* C20: whenever no operation and no stream handler is suspended, every stored
\* message belongs to a stored chat.
C20_NoOrphanMessages ==
  pending = <<>>
    => \A k \in DOMAIN dbMessages : dbMessages[k].chatId \in ChatIds(dbChats)

\* the stored message with this id carries a context token
Finalized(id) ==
  \E k \in DOMAIN dbMessages : dbMessages[k].id = id /\ dbMessages[k].context # NoCtx

\* C16: once a context token is stored on a message, no step changes the
\* message's content: not the stored row, not the in-flight Message object, not
\* that object as an element of the message list.
C16_FinalizedContentFrozen ==
  [][/\ \A i \in DOMAIN dbMessages, j \in DOMAIN dbMessages' :
          (dbMessages[i].id = dbMessages'[j].id /\ dbMessages[i].context # NoCtx)
            => dbMessages'[j].content = dbMessages[i].content
     /\ \A c \in DOMAIN ongoingAiMessages \cap DOMAIN ongoingAiMessages' :
          (ongoingAiMessages[c].id = ongoingAiMessages'[c].id
             /\ Finalized(ongoingAiMessages[c].id))
            => ongoingAiMessages'[c].content = ongoingAiMessages[c].content
     /\ \A i \in DOMAIN messages, j \in DOMAIN messages' :
          (messages[i].id = messages'[j].id /\ messages[i].alias /\ messages'[j].alias
             /\ Finalized(messages[i].id))
            => messages'[j].content = messages[i].content]_vars

\* C17: once the store holds a message of a chat, no step changes that chat's
\* model, in the store or in activeChat.
C17_ModelFrozenWithHistory ==
  [][/\ \A i \in DOMAIN dbChats, j \in DOMAIN dbChats' :
          (dbChats[i].id = dbChats'[j].id /\ getMessages(dbChats[i].id) # <<>>)
            => dbChats'[j].model = dbChats[i].model
     /\ (hasActiveChat /\ activeChat'.id = activeChat.id
           /\ getMessages(activeChat.id) # <<>>)
          => activeChat'.model = activeChat.model]_vars

\* C19: at the generate() call of addUserMessage, the chat of the user message
\* just stored, the chat whose model is passed to the transport and the chat the
\* callbacks are bound to are one and the same chat.
C19_OneChatPerCall ==
  (last.step = "um_addMessage" /\ ~last.end)
    => LET g == streams[Len(streams)]
       IN  /\ dbMessages[Len(dbMessages)].chatId = g.chatId
           /\ g.msgChatId = g.chatId
           /\ \E k \in DOMAIN dbChats :
                dbChats[k].id = g.chatId /\ dbChats[k].model = g.model

\* the store request that the step being taken resolves or rejects, when it is
\* one against the messages store: the oldest outstanding one
ResolvedTask ==
  pending[CHOOSE i \in DOMAIN pending :
            Ready(i) /\ StoreOf(pending[i].pc) = "messages"]
IsPrefix(a, b) == Len(a) <= Len(b) /\ SubSeq(b, 1, Len(a)) = a
AppendRejected ==
  last'.step = "ap_updateMessage" /\ last'.log = "Failed to append to AI message"
AppendStored == last'.step = "ap_updateMessage" /\ last'.log = ""

\* the rejected write of an APPEND: nothing raised, the store as it was, the
\* in-flight entry kept with the fragment in its content, the message list not
\* replaced
RejectedKeeps(t) ==
  /\ ~raised'
  /\ dbMessages' = dbMessages
  /\ ongoingAiMessages' = ongoingAiMessages
  /\ t.chatId \in DOMAIN ongoingAiMessages'
  /\ ongoingAiMessages'[t.chatId].id = t.msgId
       => IsPrefix(t.content, ongoingAiMessages'[t.chatId].content)
  /\ messages' = messages

\* the stored write of an APPEND: the row holds the whole content accumulated up
\* to that event; with no later APPEND outstanding it is the in-memory content
StoredWhole(t) ==
  \A k \in DOMAIN dbMessages' :
    dbMessages'[k].id = t.msgId
      => /\ dbMessages'[k].content = t.content
         /\ (/\ t.chatId \in DOMAIN ongoingAiMessages'
             /\ ongoingAiMessages'[t.chatId].id = t.msgId
             /\ \A i \in DOMAIN pending' :
                  ~(pending'[i].pc = "ap_updateMessage" /\ pending'[i].msgId = t.msgId))
              => ongoingAiMessages'[t.chatId].content = dbMessages'[k].content

\* C18 (as stated): when the write of an APPEND is rejected, the fragment stays in
\* the in-flight message's content, the entry is kept, nothing is raised and the
\* visible message list is as it was before the event, that is without the
\* fragment; the next APPEND whose write is stored persists the whole content.
C18_AppendWriteFails_ListAsBefore ==
  [][/\ AppendRejected
          => /\ RejectedKeeps(ResolvedTask)
             /\ \A k \in DOMAIN messages' :
                  messages'[k].id = ResolvedTask.msgId
                    => ~IsPrefix(ResolvedTask.content, messages'[k].content)
     /\ AppendStored => StoredWhole(ResolvedTask)]_vars

\* C18 (amended): as above, but the message list is only not replaced: where the
\* in-flight Message object is itself an element of the list (pushed at START,
\* no refresh since), the list shows the fragment.
C18_AppendWriteFails ==
  [][/\ AppendRejected
          => /\ RejectedKeeps(ResolvedTask)
             /\ \A k \in DOMAIN messages' :
                  (messages'[k].id = ResolvedTask.msgId /\ messages'[k].alias)
                    => IsPrefix(ResolvedTask.content, messages'[k].content)
     /\ AppendStored => StoredWhole(ResolvedTask)]_vars
\* the write of the second APPEND was rejected (no refresh of the list is
\* outstanding but the one of the APPEND just stored), and the third APPEND has
\* stored all three fragments
C18_Witness ==
  /\ last.step = "ap_updateMessage" /\ last.log = "" /\ ~raised
  /\ Cardinality({i \in DOMAIN pending : pending[i].pc = "ap_getMessages"}) = 1
  /\ \E k \in DOMAIN messages : messages[k].alias /\ Len(messages[k].content) = 3
  /\ \E k \in DOMAIN dbMessages :
       dbMessages[k].role = "assistant" /\ Len(dbMessages[k].content) = 3
====
